---- MODULE Spec2Model ----
(***************************************************************************)
(* Two independent pieces of the governance-contracts repository:          *)
(*  (a) the safety-module test harness: the epoch-advancement helper and   *)
(*      the named-snapshot store of test/tx-builder/safety-module.spec.ts, *)
(*      run against the simulated chain (staking contract, EVM snapshots); *)
(*  (b) the proposal submission routine createGrantsProgramProposal of     *)
(*      src/migrations/grants-program-proposal.ts, run against a governor. *)
(* Spec is the harness, SpecProposal the submission routine.               *)
(***************************************************************************)
EXTENDS Integers, Sequences, FiniteSets

\* ---------------------------------------------------------------- bounds
\* stakerInitialBalanceWei (10^24 in the test), scaled down.
stakerInitialBalanceWei == 2
\* EPOCH_LENGTH (helpers/constants), scaled down to seconds that can be enumerated.
EPOCH_LENGTH == 3
\* Length of the blackout window at the end of each epoch, scaled down.
BlackoutWindow == 1
\* A test run makes at most MaxCalls harness calls (chain operations, snapshot
\* saves and loads).
MaxCalls == 6
\* The submission routine is invoked at most MaxRuns times.
MaxRuns == 2
\* Other proposers create at most MaxOthers proposals.
MaxOthers == 2

\* ---------------------------------------------------------------- harness constants
afterMockTokenMint == "AfterMockTokenMint"
afterStake == "AfterStack"
Labels == {afterMockTokenMint, afterStake}

\* Map.get of a label that was never set (undefined, falsy in `!snapshot`).
NoHandle == 0
\* '-1' passed to withdrawStake: withdraw max.
WithdrawMax == -1
Amounts == 1..stakerInitialBalanceWei
\* Rewards are paid from a treasury holding one epoch's worth (rate 1 per second).
MaxRewards == EPOCH_LENGTH
NoState == [none |-> TRUE]

VARIABLES
    chain,          \* simulated chain state (staking contract, staker1's token balance, time)
    evmSnapshots,   \* the chain's list of live snapshots, oldest first: [id, state]
    nextSnapshotId, \* id the chain hands out at the next evm_snapshot
    snapshots,      \* the harness' Map label -> handle
    lastOp,         \* history: the last harness call and its outcome
    savedState,     \* history: chain state at the last saveSnapshot(label)
    capturedState,  \* history: chain state at the last capture (save or load) for label
    loads,          \* history: loads of label since its last saveSnapshot
    foreignLoad,    \* history: another label was loaded since saveSnapshot(label)
    trip,           \* history: progress of the withdrawal round trip of the current test
    calls           \* history: number of harness calls made so far

harnessVars == <<chain, evmSnapshots, nextSnapshotId, snapshots, lastOp,
                 savedState, capturedState, loads, foreignLoad, trip, calls>>

VARIABLES
    proposals,   \* the governor's proposals, in creation order: [id, by, run, proposal]
    mempool,     \* transactions sent and not yet mined
    receipt,     \* receipt of this invocation's transaction: "none", "success", "reverted"
    pc,          \* position of createGrantsProgramProposal
    args,        \* its parameters
    proposalId,  \* its local proposalId
    txRequest,   \* its local txRequest
    result,      \* what the invocation returned
    thrown,      \* the call that threw in this invocation, "none" if none did
    runs,        \* history: number of invocations so far
    succeeded,   \* history: number of invocations that returned
    startCount,  \* history: the governor's proposal count when the invocation began
    sent,        \* history: transactions sent by this invocation
    racedBy      \* history: proposals others created between the count read and the mining

proposalVars == <<proposals, mempool, receipt, pc, args, proposalId, txRequest,
                  result, thrown, runs, succeeded, startCount, sent, racedBy>>

vars == <<harnessVars, proposalVars>>

\* ---------------------------------------------------------------- staking contract
\* Chain state. time: seconds elapsed in the current epoch. committed: the latest
\* block carries the current time. free: staker1's token balance. active: stake
\* active in the next epoch. pending: stake requested for withdrawal in this
\* epoch. inactive: stake available to withdraw. unclaimed: rewards accrued.
\* requested: a withdrawal was requested in this chain history.
GenesisChain ==
    [time |-> 0, committed |-> TRUE, free |-> stakerInitialBalanceWei, active |-> 0,
     pending |-> 0, inactive |-> 0, unclaimed |-> 0, requested |-> FALSE]

getTimeRemainingInCurrentEpoch(c) == (EPOCH_LENGTH - c.time) % EPOCH_LENGTH

inBlackoutWindow(c) == c.time >= EPOCH_LENGTH - BlackoutWindow

getUserStakePendingWithdraw(c) == c.pending
getUserStakeAvailableToWithdraw(c) == c.inactive
getUserBalanceOfStakedToken(c) == c.free
getUserStake(c) == c.active + c.pending
RewardsPaid(c) == (c.free + c.active + c.pending + c.inactive) - stakerInitialBalanceWei

\* The rewards treasury can pay for d more seconds.
CanAdvance(c, d) ==
    getUserStake(c) > 0 => RewardsPaid(c) + c.unclaimed + d <= MaxRewards

\* Time passes: rewards accrue on the staked balance, and at an epoch boundary
\* the pending withdrawals become available.
AdvanceTime(c, d) ==
    LET crossed == c.time + d >= EPOCH_LENGTH
    IN  [c EXCEPT !.time = (c.time + d) % EPOCH_LENGTH,
                  !.unclaimed = IF getUserStake(c) > 0 THEN @ + d ELSE @,
                  !.pending = IF crossed THEN 0 ELSE @,
                  !.inactive = IF crossed THEN @ + c.pending ELSE @]

increaseTime(c, d) == [AdvanceTime(c, d) EXCEPT !.committed = FALSE]

increaseTimeAndMine(c, d) == [AdvanceTime(c, d) EXCEPT !.committed = TRUE]

stake(c, a) == [c EXCEPT !.free = @ - a, !.active = @ + a, !.committed = TRUE]

requestWithdrawal(c, a) ==
    [c EXCEPT !.active = @ - a, !.pending = @ + a, !.requested = TRUE,
              !.committed = TRUE]

WithdrawAmount(c, a) == IF a = WithdrawMax THEN c.inactive ELSE a

withdrawStake(c, a) ==
    [c EXCEPT !.inactive = @ - WithdrawAmount(c, a),
              !.free = @ + WithdrawAmount(c, a), !.committed = TRUE]

claimRewards(c) ==
    [c EXCEPT !.free = @ + c.unclaimed, !.unclaimed = 0, !.committed = TRUE]

\* ---------------------------------------------------------------- EVM snapshots
\* evm_snapshot: the chain records its state under a fresh id.
evmSnapshot(list, id, c) == Append(list, [id |-> id, state |-> c])

SnapshotIndex(list, id) == {i \in 1..Len(list) : list[i].id = id}

\* evm_revert: restore the state recorded under id and drop that snapshot and
\* every later one; an unknown id restores nothing.
evmRevertOk(list, id) == SnapshotIndex(list, id) # {}

evmRevertState(list, id, c) ==
    IF evmRevertOk(list, id)
    THEN list[CHOOSE i \in SnapshotIndex(list, id) : TRUE].state
    ELSE c

evmRevertList(list, id) ==
    IF evmRevertOk(list, id)
    THEN SubSeq(list, 1, (CHOOSE i \in SnapshotIndex(list, id) : TRUE) - 1)
    ELSE list

\* ---------------------------------------------------------------- history
NoTrip == [phase |-> "none", S |-> 0, A |-> 0, initial |-> 0]
NoOp == [op |-> "none"]

Call ==
    /\ calls < MaxCalls
    /\ calls' = calls + 1
    /\ UNCHANGED proposalVars

\* A chain operation of a test case: the snapshot store is not touched.
ChainOp(name, arg) ==
    /\ Call
    /\ lastOp' = [op |-> name, arg |-> arg]
    /\ UNCHANGED <<evmSnapshots, nextSnapshotId, snapshots, savedState,
                   capturedState, loads, foreignLoad>>

\* ---------------------------------------------------------------- test operations
Stake(a) ==
    /\ a <= chain.free
    /\ chain' = stake(chain, a)
    /\ trip' = NoTrip
    /\ ChainOp("stake", a)

RequestWithdrawal(a) ==
    /\ a <= chain.active
    /\ ~inBlackoutWindow(chain)
    /\ chain' = requestWithdrawal(chain, a)
    /\ trip' = IF chain.pending = 0 /\ chain.inactive = 0
               THEN [phase |-> "requested", S |-> chain.active, A |-> a,
                     initial |-> chain.free + chain.active]
               ELSE NoTrip
    /\ ChainOp("requestWithdrawal", a)

WithdrawStake(a) ==
    /\ WithdrawAmount(chain, a) <= chain.inactive
    /\ chain' = withdrawStake(chain, a)
    /\ trip' = IF trip.phase = "elapsed" /\ a \in {trip.A, WithdrawMax}
               THEN [trip EXCEPT !.phase = "withdrawn"]
               ELSE NoTrip
    /\ ChainOp("withdrawStake", a)

ClaimRewards ==
    /\ chain' = claimRewards(chain)
    /\ trip' = NoTrip
    /\ ChainOp("claimRewards", 0)

IncreaseTimeAndMine ==
    /\ CanAdvance(chain, 1)
    /\ chain' = increaseTimeAndMine(chain, 1)
    /\ trip' = NoTrip
    /\ ChainOp("increaseTimeAndMine", 1)

\* remaining ||= EPOCH_LENGTH left out.
ElapseRemainingNoSubstitute(c) == getTimeRemainingInCurrentEpoch(c)

ElapseRemaining(c) ==
    IF getTimeRemainingInCurrentEpoch(c) = 0
    THEN EPOCH_LENGTH
    ELSE getTimeRemainingInCurrentEpoch(c)

elapseEpoch(mineBlock) ==
    LET remaining == ElapseRemaining(chain)
    IN  /\ Call
        /\ CanAdvance(chain, remaining)
        /\ chain' = IF mineBlock
                    THEN increaseTimeAndMine(chain, remaining)
                    ELSE increaseTime(chain, remaining)
        /\ trip' = IF trip.phase = "requested"
                   THEN [trip EXCEPT !.phase = "elapsed"]
                   ELSE NoTrip
        /\ lastOp' = [op |-> "elapseEpoch", mineBlock |-> mineBlock,
                      seconds |-> remaining,
                      reported |-> getTimeRemainingInCurrentEpoch(chain),
                      from |-> chain.time]
        /\ UNCHANGED <<evmSnapshots, nextSnapshotId, snapshots, savedState,
                       capturedState, loads, foreignLoad>>

\* snapshots.set only when the label has no handle yet.
saveSnapshotKeepsPrior(label) ==
    /\ Call
    /\ evmSnapshots' = evmSnapshot(evmSnapshots, nextSnapshotId, chain)
    /\ nextSnapshotId' = nextSnapshotId + 1
    /\ snapshots' = IF snapshots[label] = NoHandle
                    THEN [snapshots EXCEPT ![label] = nextSnapshotId]
                    ELSE snapshots
    /\ savedState' = [savedState EXCEPT ![label] = chain]
    /\ capturedState' = [capturedState EXCEPT ![label] = chain]
    /\ loads' = [loads EXCEPT ![label] = 0]
    /\ foreignLoad' = [foreignLoad EXCEPT ![label] = FALSE]
    /\ lastOp' = [op |-> "saveSnapshot", label |-> label]
    /\ UNCHANGED <<chain, trip>>

saveSnapshot(label) ==
    /\ Call
    /\ evmSnapshots' = evmSnapshot(evmSnapshots, nextSnapshotId, chain)
    /\ nextSnapshotId' = nextSnapshotId + 1
    /\ snapshots' = [snapshots EXCEPT ![label] = nextSnapshotId]
    /\ savedState' = [savedState EXCEPT ![label] = chain]
    /\ capturedState' = [capturedState EXCEPT ![label] = chain]
    /\ loads' = [loads EXCEPT ![label] = 0]
    /\ foreignLoad' = [foreignLoad EXCEPT ![label] = FALSE]
    /\ lastOp' = [op |-> "saveSnapshot", label |-> label]
    /\ UNCHANGED <<chain, trip>>

\* The guard `if (!snapshot) throw` left out: the load takes a snapshot anyway.
loadSnapshotThrowsNot(label) ==
    /\ Call
    /\ snapshots[label] = NoHandle
    /\ evmSnapshots' = evmSnapshot(evmSnapshots, nextSnapshotId, chain)
    /\ nextSnapshotId' = nextSnapshotId + 1
    /\ snapshots' = [snapshots EXCEPT ![label] = nextSnapshotId]
    /\ lastOp' = [op |-> "loadSnapshot", label |-> label, outcome |-> "ok",
                  reverted |-> FALSE, clean |-> FALSE, moved |-> FALSE]
    /\ UNCHANGED <<chain, savedState, capturedState, loads, foreignLoad, trip>>

loadSnapshotThrows(label) ==
    /\ Call
    /\ snapshots[label] = NoHandle
    /\ lastOp' = [op |-> "loadSnapshot", label |-> label, outcome |-> "thrown",
                  message |-> label]
    /\ UNCHANGED <<chain, evmSnapshots, nextSnapshotId, snapshots, savedState,
                   capturedState, loads, foreignLoad, trip>>

\* The re-save after the revert (snapshots.set(label, await evmSnapshot())) left out.
loadSnapshotRevertsOnly(label) ==
    LET snapshot == snapshots[label]
        restored == evmRevertState(evmSnapshots, snapshot, chain)
    IN  /\ Call
        /\ snapshot # NoHandle
        /\ chain' = restored
        /\ evmSnapshots' = evmRevertList(evmSnapshots, snapshot)
        /\ loads' = [loads EXCEPT ![label] = @ + 1]
        /\ foreignLoad' = [l \in Labels |-> IF l = label THEN foreignLoad[l] ELSE TRUE]
        /\ lastOp' = [op |-> "loadSnapshot", label |-> label, outcome |-> "ok",
                      reverted |-> evmRevertOk(evmSnapshots, snapshot),
                      clean |-> ~foreignLoad[label],
                      moved |-> chain # restored]
        /\ trip' = NoTrip
        /\ UNCHANGED <<nextSnapshotId, snapshots, capturedState, savedState>>

loadSnapshotReverts(label) ==
    LET snapshot == snapshots[label]
        restored == evmRevertState(evmSnapshots, snapshot, chain)
    IN  /\ Call
        /\ snapshot # NoHandle
        /\ chain' = restored
        /\ evmSnapshots' =
              evmSnapshot(evmRevertList(evmSnapshots, snapshot), nextSnapshotId, restored)
        /\ nextSnapshotId' = nextSnapshotId + 1
        /\ snapshots' = [snapshots EXCEPT ![label] = nextSnapshotId]
        /\ capturedState' = [capturedState EXCEPT ![label] = restored]
        /\ loads' = [loads EXCEPT ![label] = @ + 1]
        /\ foreignLoad' = [l \in Labels |-> IF l = label THEN foreignLoad[l] ELSE TRUE]
        /\ lastOp' = [op |-> "loadSnapshot", label |-> label, outcome |-> "ok",
                      reverted |-> evmRevertOk(evmSnapshots, snapshot),
                      clean |-> ~foreignLoad[label],
                      moved |-> chain # restored]
        /\ trip' = NoTrip
        /\ UNCHANGED savedState

loadSnapshot(label) == loadSnapshotThrows(label) \/ loadSnapshotReverts(label)

HarnessInit ==
    /\ chain = GenesisChain
    /\ evmSnapshots = <<>>
    /\ nextSnapshotId = 1
    /\ snapshots = [l \in Labels |-> NoHandle]
    /\ lastOp = NoOp
    /\ savedState = [l \in Labels |-> NoState]
    /\ capturedState = [l \in Labels |-> NoState]
    /\ loads = [l \in Labels |-> 0]
    /\ foreignLoad = [l \in Labels |-> FALSE]
    /\ trip = NoTrip
    /\ calls = 0

\* ---------------------------------------------------------------- governor

IpfsHashes == {"0xaa", "0xbb"}
NoArgs == [proposalIpfsHashHex |-> "none"]
NoTx == [to |-> "none"]
NoResult == [returned |-> FALSE]
DGP_MULTISIG_ADDRESS == "dgpMultisig"
DGP_FUNDING_AMOUNT == "dgpFundingAmount"

Args(hash) ==
    [proposalIpfsHashHex |-> hash, dydxTokenAddress |-> "dydxToken",
     governorAddress |-> "governor", shortTimelockAddress |-> "shortTimelock",
     communityTreasuryAddress |-> "communityTreasury", signer |-> "deployer"]

\* The Proposal tuple: executor, targets, values, signatures, calldatas,
\* withDelegatecalls, ipfsHash.
Proposal(a) ==
    <<a.shortTimelockAddress,
      <<a.communityTreasuryAddress>>,
      <<"0">>,
      <<"transfer(address,address,uint256)">>,
      <<(<<a.dydxTokenAddress, DGP_MULTISIG_ADDRESS, DGP_FUNDING_AMOUNT>>)>>,
      <<FALSE>>,
      a.proposalIpfsHashHex>>

encodeFunctionData(fn, p) == [selector |-> fn, params |-> p]

\* The governor accepts a create call whose action arrays are non-empty and of
\* one length.
ValidCreate(data) ==
    /\ data.selector = "create"
    /\ Len(data.params[2]) > 0
    /\ \A k \in 3..6 : Len(data.params[k]) = Len(data.params[2])

getProposalsCount == Len(proposals)

\* create: the new proposal's id is the previous count.
create(by, run, data) ==
    Append(proposals, [id |-> getProposalsCount, by |-> by, run |-> run,
                       proposal |-> data.params])

InFlight == pc \in {"build", "populate", "send"} \/ (pc = "wait" /\ receipt = "none")

\* ---------------------------------------------------------------- submission routine
\* Lines 29-35: the routine is entered and attaches to the governor.
Invoke(hash) ==
    /\ pc \in {"idle", "done", "failed"}
    /\ runs < MaxRuns
    /\ mempool = <<>>
    /\ runs' = runs + 1
    /\ args' = Args(hash)
    /\ startCount' = getProposalsCount
    /\ pc' = "getProposalsCount"
    /\ proposalId' = 0
    /\ txRequest' = NoTx
    /\ receipt' = "none"
    /\ result' = NoResult
    /\ thrown' = "none"
    /\ sent' = 0
    /\ racedBy' = 0
    /\ UNCHANGED harnessVars
    /\ UNCHANGED <<proposals, mempool, succeeded>>

\* The count is read one too high (the next count, not the next id).
GetProposalsCountOffByOne ==
    /\ pc = "getProposalsCount"
    /\ proposalId' = getProposalsCount + 1
    /\ pc' = "build"
    /\ UNCHANGED harnessVars
    /\ UNCHANGED <<proposals, mempool, receipt, args, txRequest, result, thrown,
                   runs, succeeded, startCount, sent, racedBy>>

\* Line 36.
GetProposalsCount ==
    /\ pc = "getProposalsCount"
    /\ proposalId' = getProposalsCount
    /\ pc' = "build"
    /\ UNCHANGED harnessVars
    /\ UNCHANGED <<proposals, mempool, receipt, args, txRequest, result, thrown,
                   runs, succeeded, startCount, sent, racedBy>>

\* Lines 37-55.
BuildTxRequest ==
    /\ pc = "build"
    /\ txRequest' = [to |-> args.governorAddress, from |-> args.signer,
                     data |-> encodeFunctionData("create", Proposal(args))]
    /\ pc' = "populate"
    /\ UNCHANGED harnessVars
    /\ UNCHANGED <<proposals, mempool, receipt, args, proposalId, result, thrown,
                   runs, succeeded, startCount, sent, racedBy>>

\* Lines 56-59: populateTransaction resolves gas and nonce, or throws.
PopulateTransaction(ok) ==
    /\ pc = "populate"
    /\ pc' = IF ok THEN "send" ELSE "failed"
    /\ thrown' = IF ok THEN thrown ELSE "populateTransaction"
    /\ UNCHANGED harnessVars
    /\ UNCHANGED <<proposals, mempool, receipt, args, proposalId, txRequest, result,
                   runs, succeeded, startCount, sent, racedBy>>

\* Both line 60 and line 61 send the proposal.
SendTransactionTwice(ok) ==
    /\ pc = "send"
    /\ pc' = IF ok THEN "wait" ELSE "failed"
    /\ mempool' = IF ok THEN mempool \o <<txRequest, txRequest>> ELSE mempool
    /\ sent' = IF ok THEN sent + 2 ELSE sent
    /\ thrown' = IF ok THEN thrown ELSE "sendTransaction"
    /\ UNCHANGED harnessVars
    /\ UNCHANGED <<proposals, receipt, args, proposalId, txRequest, result,
                   runs, succeeded, startCount, racedBy>>

\* Line 61, deployer.sendTransaction: the transaction is accepted, or the send
\* is rejected (insufficient funds, network error) and throws.
SendTransaction(ok) ==
    /\ pc = "send"
    /\ pc' = IF ok THEN "wait" ELSE "failed"
    /\ mempool' = IF ok THEN Append(mempool, txRequest) ELSE mempool
    /\ sent' = IF ok THEN sent + 1 ELSE sent
    /\ thrown' = IF ok THEN thrown ELSE "sendTransaction"
    /\ UNCHANGED harnessVars
    /\ UNCHANGED <<proposals, receipt, args, proposalId, txRequest, result,
                   runs, succeeded, startCount, racedBy>>

\* The chain mines the oldest transaction: the governor executes create, or the
\* call reverts and leaves the governor unchanged.
MineTx(executes) ==
    /\ mempool # <<>>
    /\ mempool' = Tail(mempool)
    /\ IF executes /\ ValidCreate(Head(mempool).data)
       THEN /\ proposals' = create("script", runs, Head(mempool).data)
            /\ receipt' = IF receipt = "none" THEN "success" ELSE receipt
       ELSE /\ proposals' = proposals
            /\ receipt' = IF receipt = "none" THEN "reverted" ELSE receipt
    /\ UNCHANGED harnessVars
    /\ UNCHANGED <<pc, args, proposalId, txRequest, result, thrown, runs, succeeded,
                   startCount, sent, racedBy>>

\* A reverted transaction is not reported: the routine goes on to return.
WaitForTxSwallows ==
    /\ pc = "wait"
    /\ receipt # "none"
    /\ pc' = "return"
    /\ UNCHANGED harnessVars
    /\ UNCHANGED <<proposals, mempool, receipt, args, proposalId, txRequest, result,
                   thrown, runs, succeeded, startCount, sent, racedBy>>

\* Line 61, waitForTx: returns once the transaction is mined, throws if it reverted.
WaitForTx ==
    /\ pc = "wait"
    /\ receipt # "none"
    /\ pc' = IF receipt = "success" THEN "return" ELSE "failed"
    /\ thrown' = IF receipt = "success" THEN thrown ELSE "waitForTx"
    /\ UNCHANGED harnessVars
    /\ UNCHANGED <<proposals, mempool, receipt, args, proposalId, txRequest, result,
                   runs, succeeded, startCount, sent, racedBy>>

\* Lines 63-65.
Return ==
    /\ pc = "return"
    /\ result' = [returned |-> TRUE, proposalId |-> proposalId]
    /\ succeeded' = succeeded + 1
    /\ pc' = "done"
    /\ UNCHANGED harnessVars
    /\ UNCHANGED <<proposals, mempool, receipt, args, proposalId, txRequest, thrown,
                   runs, startCount, sent, racedBy>>

\* Another proposer creates a proposal.
OtherCreate ==
    /\ Cardinality({i \in 1..Len(proposals) : proposals[i].by = "other"}) < MaxOthers
    /\ proposals' = Append(proposals, [id |-> getProposalsCount, by |-> "other",
                                       run |-> 0, proposal |-> <<>>])
    /\ racedBy' = IF InFlight THEN racedBy + 1 ELSE racedBy
    /\ UNCHANGED harnessVars
    /\ UNCHANGED <<mempool, receipt, pc, args, proposalId, txRequest, result, thrown,
                   runs, succeeded, startCount, sent>>

ProposalInit ==
    /\ proposals = <<>>
    /\ mempool = <<>>
    /\ receipt = "none"
    /\ pc = "idle"
    /\ args = NoArgs
    /\ proposalId = 0
    /\ txRequest = NoTx
    /\ result = NoResult
    /\ thrown = "none"
    /\ runs = 0
    /\ succeeded = 0
    /\ startCount = 0
    /\ sent = 0
    /\ racedBy = 0

Init == HarnessInit /\ ProposalInit

Next ==
    \/ \E a \in Amounts : Stake(a)
    \/ \E a \in Amounts : RequestWithdrawal(a)
    \/ \E a \in Amounts \cup {WithdrawMax} : WithdrawStake(a)
    \/ ClaimRewards
    \/ IncreaseTimeAndMine
    \/ \E mineBlock \in BOOLEAN : elapseEpoch(mineBlock)
    \/ \E label \in Labels : saveSnapshot(label)
    \/ \E label \in Labels : loadSnapshot(label)

NextProposal ==
    \/ \E hash \in IpfsHashes : Invoke(hash)
    \/ GetProposalsCount
    \/ BuildTxRequest
    \/ \E ok \in BOOLEAN : PopulateTransaction(ok)
    \/ \E ok \in BOOLEAN : SendTransaction(ok)
    \/ \E executes \in BOOLEAN : MineTx(executes)
    \/ WaitForTx
    \/ Return
    \/ OtherCreate

\* The test harness against the simulated chain.
Spec == Init /\ [][Next]_vars

\* The submission routine against the governor.
SpecProposal == Init /\ [][NextProposal]_vars

\* ---------------------------------------------------------------- harness claims
LoadedOk == lastOp.op = "loadSnapshot" /\ lastOp.outcome = "ok"

\* C1: once label L is saved in chain state S, every load of L restores the
\* chain to S, however often L was loaded before and whatever chain operations
\* ran between the loads (no other label being loaded in between).
C1_RepeatedLoadsRestoreSavedState ==
    (LoadedOk /\ lastOp.clean) => chain = savedState[lastOp.label]

\* C1 witness: a second or later load of L, after chain operations moved the
\* chain away from the saved state.
C1_Witness ==
    /\ LoadedOk
    /\ lastOp.clean
    /\ lastOp.moved
    /\ loads[lastOp.label] >= 2

\* C2: loadSnapshot of a label without a handle throws an error naming the
\* label and changes neither the chain (no revert, no new snapshot) nor the store.
C2_LoadUnknownLabelThrows ==
    [][\A l \in Labels :
          (/\ calls' = calls + 1
           /\ lastOp'.op = "loadSnapshot"
           /\ lastOp'.label = l
           /\ snapshots[l] = NoHandle)
          => (/\ lastOp'.outcome = "thrown"
              /\ lastOp'.message = l
              /\ UNCHANGED <<chain, evmSnapshots, nextSnapshotId, snapshots>>)
      ]_vars

\* C2 witness: a load has thrown while the chain had moved on and the other
\* label held a handle.
C2_Witness ==
    /\ lastOp.op = "loadSnapshot"
    /\ lastOp.outcome = "thrown"
    /\ chain # GenesisChain
    /\ \E m \in Labels : snapshots[m] # NoHandle

\* C3: saveSnapshot(L) and a successful loadSnapshot(L) replace L's entry by a
\* handle freshly captured from the chain state at the end of the call, and
\* leave every other label's entry unchanged.
C3_CaptureReplacesOnlyOwnEntry ==
    [][\A l \in Labels :
          (/\ calls' = calls + 1
           /\ \/ lastOp'.op = "saveSnapshot"
              \/ (lastOp'.op = "loadSnapshot" /\ lastOp'.outcome = "ok")
           /\ lastOp'.label = l)
          => (/\ snapshots'[l] # NoHandle
              /\ snapshots'[l] # snapshots[l]
              /\ \A i \in 1..Len(evmSnapshots) : evmSnapshots[i].id # snapshots'[l]
              /\ Len(evmSnapshots') > 0
              /\ evmSnapshots'[Len(evmSnapshots')] = [id |-> snapshots'[l], state |-> chain']
              /\ \A m \in Labels \ {l} : snapshots'[m] = snapshots[m])
      ]_vars

\* C3 witness: a load of L has replaced L's handle while another label holds one.
C3_Witness ==
    /\ LoadedOk
    /\ lastOp.reverted
    /\ \E m \in Labels \ {lastOp.label} : snapshots[m] # NoHandle

\* C4: elapseEpoch advances time by the remaining time the contract reports,
\* or by EPOCH_LENGTH when that is zero, never by zero; the chain is then at
\* the start of the next epoch; a block is mined exactly when mineBlock.
C4_ElapseEpochAdvance ==
    lastOp.op = "elapseEpoch" =>
        /\ lastOp.seconds = (IF lastOp.reported = 0 THEN EPOCH_LENGTH ELSE lastOp.reported)
        /\ lastOp.seconds > 0
        /\ lastOp.from + lastOp.seconds = EPOCH_LENGTH
        /\ chain.time = 0
        /\ chain.committed = lastOp.mineBlock

\* C4 witness: elapseEpoch(false) called exactly at an epoch boundary.
C4_Witness ==
    /\ lastOp.op = "elapseEpoch"
    /\ lastOp.reported = 0
    /\ ~lastOp.mineBlock

\* C8: stake S, request A, elapse one epoch: withdrawing A and withdrawing
\* max are both accepted and amount to A; once withdrawn, the free balance is
\* initial - (S - A), the stake that remains, and initial when A = S.
C8_WithdrawalRoundTrip ==
    /\ trip.phase = "elapsed" =>
          /\ WithdrawAmount(chain, trip.A) <= getUserStakeAvailableToWithdraw(chain)
          /\ WithdrawAmount(chain, WithdrawMax) = trip.A
    /\ trip.phase = "withdrawn" =>
          /\ getUserBalanceOfStakedToken(chain) = trip.initial - (trip.S - trip.A)
          /\ getUserStake(chain) = trip.S - trip.A
          /\ (trip.A = trip.S => getUserBalanceOfStakedToken(chain) = trip.initial)

\* C8 witness: half of the stake requested, then withdrawn with the max sentinel.
C8_Witness ==
    /\ trip.phase = "withdrawn"
    /\ trip.A < trip.S
    /\ lastOp.op = "withdrawStake"
    /\ lastOp.arg = WithdrawMax

\* C9: after a request of A the pending amount is A in the same epoch, after
\* one elapseEpoch the available amount is A, and before any request both are 0.
C9_PendingThenAvailable ==
    /\ trip.phase = "requested" => getUserStakePendingWithdraw(chain) = trip.A
    /\ trip.phase = "elapsed" => getUserStakeAvailableToWithdraw(chain) = trip.A
    /\ ~chain.requested =>
          /\ getUserStakePendingWithdraw(chain) = 0
          /\ getUserStakeAvailableToWithdraw(chain) = 0

\* C9 witness: a request of A > 0 followed by one elapseEpoch.
C9_Witness ==
    /\ trip.phase = "elapsed"
    /\ trip.A > 0
    /\ lastOp.op = "elapseEpoch"
    /\ getUserStakePendingWithdraw(chain) = 0

\* C10: labels do not interfere: every label in the store holds a usable
\* handle, which restores the chain state of that label's most recent capture.
C10_LabelsDoNotInterfere ==
    \A l \in Labels :
        snapshots[l] # NoHandle =>
            /\ evmRevertOk(evmSnapshots, snapshots[l])
            /\ evmRevertState(evmSnapshots, snapshots[l], chain) = capturedState[l]

\* ---------------------------------------------------------------- submission claims
ScriptProposals == {i \in 1..Len(proposals) : proposals[i].by = "script"}
OwnProposals == {i \in ScriptProposals : proposals[i].run = runs}
SendFailed == thrown # "none" \/ receipt = "reverted"

\* C5: an invocation that returned has sent exactly one create transaction,
\* which recorded one proposal with one action, a transfer from the community
\* treasury; every returned invocation adds one proposal, identical parameters
\* or not.
C5_OneProposalPerSuccessfulRun ==
    /\ pc = "done" =>
          /\ sent = 1
          /\ Cardinality(OwnProposals) = 1
          /\ \A i \in OwnProposals :
                /\ proposals[i].proposal = Proposal(args)
                /\ Len(proposals[i].proposal[2]) = 1
                /\ proposals[i].proposal[2][1] = args.communityTreasuryAddress
                /\ proposals[i].proposal[4] = <<"transfer(address,address,uint256)">>
          /\ \A i \in (startCount + 1)..Len(proposals) :
                i \in OwnProposals \/ proposals[i].by = "other"
    /\ pc \in {"idle", "done", "failed"} => Cardinality(ScriptProposals) = succeeded

\* C5 witness: two invocations with identical parameters have returned and the
\* governor holds two identical proposals of the routine.
C5_Witness ==
    /\ pc = "done"
    /\ succeeded = 2
    /\ \E i, j \in ScriptProposals :
          i # j /\ proposals[i].proposal = proposals[j].proposal

C7_ReturnsCountReadBeforeSubmission ==
    pc = "done" =>
        /\ receipt = "success"
        /\ result.returned
        /\ \A i \in OwnProposals :
              /\ result.proposalId + racedBy = proposals[i].id
              /\ result.proposalId = proposals[i].id <=> racedBy = 0

\* C7 witness: another proposer created a proposal between the read and the
\* send; the routine submitted anyway and returned the stale count.
C7_Witness ==
    /\ pc = "done"
    /\ racedBy > 0
    /\ \E i \in OwnProposals : result.proposalId # proposals[i].id

====
